---- MODULE Spec2Model ----
(***************************************************************************)
(* State-machine model of the browser front end of gb-emu: the Tick        *)
(* Driver (main_loop), the power controls and the socket handlers, in the  *)
(* two link variants found in the sources:                                 *)
(*   - the serial lockstep variant (src/unnamed/part_001, and its earlier  *)
(*     form in src/gb-emu-web/www/js/index.js lines 438-601), and          *)
(*   - the snapshot variant (src/gb-emu-web/www/js/index.js lines 1-231).  *)
(* JavaScript runs every callback to completion: a callback is one action, *)
(* except main_loop's while loop, whose iterations are separate actions    *)
(* during which no other callback of the same page can run (pc).           *)
(* The engine (GameBoyHandle) and the audio sink (AudioHandle) are wasm    *)
(* objects outside the sources; they are modelled from their declarations  *)
(* and from the capability interface of the specification.                 *)
(***************************************************************************)
EXTENDS Integers, Sequences, FiniteSets, TLC

VARIABLES
    variant,        \* serial: "deferred" (part_001) or "immediate" (index.js 438-601)
    net,            \* "env": one page against an arbitrary transport; "pair": two linked pages
    rom_file,       \* [page -> NOTEXT or "rom"]
    gameboy,        \* [page -> NULL or engine record]
    running,        \* [page -> BOOLEAN]
    connection,     \* [page -> text of the connection label]
    phase,          \* [page -> [closure -> "free" | "loading" | "run"]] of on.onclick
    lockstep,       \* [page -> [closure -> BOOLEAN]]
    received_data,  \* [page -> [closure -> NONE or byte]]
    audio,          \* serial: [page -> [closure -> NONE or queue length]]; snapshot: [page -> NONE or queue length]
    timers,         \* serial: [page -> [closure -> active main_loop timers]]; snapshot: [page -> [main, sync |-> active timers]]
    idLive,         \* [page -> [closure -> intervalID names a timer that is still active]]
    handlers,       \* [page -> sequence of closures whose socket handlers are registered]
    pc,             \* [page -> NONE or the closure whose main_loop is inside its while loop]
    out,            \* [page -> sequence of messages emitted and not yet taken by the transport]
    socket,         \* snapshot: [page -> NOTEXT | "closed" | "opening" | "connected"]
    rom,            \* snapshot: [page -> NOTEXT or "rom"]
    other,          \* snapshot: [page -> NONE or the id of the linked peer]
    mode,           \* snapshot: [page -> NOTEXT | "slave" | "master"]
    initialized,    \* snapshot: [page -> BOOLEAN]
    room,           \* snapshot: [page -> the server holds the page in a link]
    last,           \* snapshot: [page -> the socket message handled last and what it found]
    keyed           \* snapshot: [page -> a local key event was applied since the engine's last cycle]

serialVars == <<variant, rom_file, running, connection, phase, lockstep,
                received_data, idLive, handlers>>

snapVars == <<socket, rom, other, mode, initialized, room, last, keyed>>

vars == <<net, gameboy, audio, timers, pc, out, serialVars, snapVars>>

\* null: of an engine handle (NULL), of a number-valued variable (NONE), of a text (NOTEXT).
NULL == [null |-> TRUE]
NONE == -1
NOTEXT == "null"

\* Bounds of the model.
MaxSessions == 2    \* on.onclick closures per page
MaxTimers == 2      \* active interval timers per closure
FrameLen == 2       \* engine cycles per frame
MaxByte == 1        \* serial bytes are 0..MaxByte
MaxQueue == 2       \* emitted messages in flight per page
MaxState == 2       \* game boy state digests are 0..MaxState
MaxId == 3          \* peer ids offered by the server are 2..MaxId
MaxPending == 1     \* snapshot: emitted messages in flight per page

\* Program constant: main_loop steps only while audio.length() < 15.
AudioLimit == 15

AllPeers == {1, 2}
Peers == IF net = "env" THEN {1} ELSE AllPeers
Other(p) == 3 - p
Sessions == 1..MaxSessions
Bytes == 0..MaxByte

Range(f) == {f[i] : i \in DOMAIN f}

(***************************************************************************)
(* The engine of the serial variant (gbemu_web.d.ts).  One emulate_cycle   *)
(* advances the cycle counter, reports a frame boundary every FrameLen     *)
(* cycles and, as the running program decides, calls the audio callback,   *)
(* switches the serial clock (master/slave), or starts a serial transfer   *)
(* of a byte through the send callback.                                    *)
(***************************************************************************)
GameBoyHandle_new(s) == [master |-> FALSE, data |-> 0, cyc |-> 0, cb |-> s, key |-> FALSE]

EngineEvents ==
    {<<"none", 0>>, <<"apu", 0>>, <<"clock", 0>>} \cup {<<"send", v>> : v \in Bytes}

emulate_cycle(g, e) ==
    [g EXCEPT !.cyc = (g.cyc + 1) % FrameLen,
              !.master = IF e[1] = "clock" THEN ~g.master ELSE g.master,
              !.data = IF e[1] = "send" THEN e[2] ELSE g.data]

frame_ready(g) == g.cyc = 0

serial_is_master(g) == g.master

serial_data(g) == g.data

serial_receive(g, val) == [g EXCEPT !.data = val]

\* key_down and key_up of the serial variant's engine: a key is held or not.
joypad_down(g) == [g EXCEPT !.key = TRUE]

joypad_up(g) == [g EXCEPT !.key = FALSE]

(***************************************************************************)
(* The audio sink (AudioHandle).  Its queue length is followed at the      *)
(* levels the driver's test audio.length() < 15 tells apart: empty, one    *)
(* below the limit, at the limit.  append raises the level, the audio      *)
(* device lowers it.                                                       *)
(***************************************************************************)
AudioHandle_new == 0

append(len) == IF len < AudioLimit - 1 THEN AudioLimit - 1 ELSE AudioLimit

played(len) == IF len >= AudioLimit THEN AudioLimit - 1 ELSE 0

(***************************************************************************)
(* Timers.  setInterval adds an active timer and stores its id in          *)
(* intervalID; clearInterval(intervalID) stops the timer intervalID names, *)
(* if it is still active.                                                  *)
(***************************************************************************)
setInterval(t, p, s) == [t EXCEPT ![p][s] = @ + 1]

clearInterval(t, p, s) == [t EXCEPT ![p][s] = IF idLive[p][s] THEN @ - 1 ELSE @]

Emit(o, p, msg) == [o EXCEPT ![p] = Append(@, msg)]

Idle(p) == pc[p] = NONE

(***************************************************************************)
(* Serial variant: controls.                                               *)
(***************************************************************************)
RomInput(p) ==
    /\ Idle(p)
    /\ rom_file[p] = NOTEXT
    /\ rom_file' = [rom_file EXCEPT ![p] = "rom"]
    /\ UNCHANGED <<snapVars, variant, net, gameboy, running, connection, phase, lockstep,
                   received_data, audio, timers, idLive, handlers, pc, out>>

\* on.onclick up to the start of the asynchronous file read.
OnClick(p) ==
    /\ Idle(p)
    /\ rom_file[p] # NOTEXT
    /\ gameboy[p] = NULL
    /\ \E s \in Sessions :
        /\ phase[p][s] = "free"
        /\ \A t \in Sessions : t < s => phase[p][t] # "free"
        /\ phase' = [phase EXCEPT ![p][s] = "loading"]
        /\ lockstep' = [lockstep EXCEPT ![p][s] = FALSE]
        /\ received_data' = [received_data EXCEPT ![p][s] = NONE]
    /\ UNCHANGED <<snapVars, variant, net, rom_file, gameboy, running, connection, audio,
                   timers, idLive, handlers, pc, out>>

\* reader.onloadend: run().
Run(p, s) ==
    /\ Idle(p)
    /\ phase[p][s] = "loading"
    /\ phase' = [phase EXCEPT ![p][s] = "run"]
    /\ running' = [running EXCEPT ![p] = TRUE]
    /\ gameboy' = [gameboy EXCEPT ![p] = GameBoyHandle_new(s)]
    /\ audio' = [audio EXCEPT ![p][s] = AudioHandle_new]
    /\ handlers' = [handlers EXCEPT ![p] = Append(@, s)]
    /\ timers' = setInterval(timers, p, s)
    /\ idLive' = [idLive EXCEPT ![p][s] = TRUE]
    /\ UNCHANGED <<snapVars, variant, net, rom_file, connection, lockstep, received_data,
                   pc, out>>

\* off.onclick; the two handlers it registers do nothing.
OffClick(p) ==
    /\ Idle(p)
    /\ running[p]
    /\ running' = [running EXCEPT ![p] = FALSE]
    /\ UNCHANGED <<snapVars, variant, net, rom_file, gameboy, connection, phase, lockstep,
                   received_data, audio, timers, idLive, handlers, pc, out>>

\* The audio device plays queued buffers.
Playback(p, s) ==
    /\ Idle(p)
    /\ audio[p][s] # NONE
    /\ audio[p][s] > 0
    /\ audio' = [audio EXCEPT ![p][s] = played(@)]
    /\ UNCHANGED <<snapVars, variant, net, rom_file, gameboy, running, connection, phase,
                   lockstep, received_data, timers, idLive, handlers, pc, out>>

(***************************************************************************)
(* Serial variant: main_loop.  MainLoopTick is an interval callback up to  *)
(* the while loop; MainLoopIter is one iteration of the loop.  A callback  *)
(* that throws a TypeError (a method call on null) ends there.             *)
(***************************************************************************)
MainLoopTick(p, s) ==
    /\ Idle(p)
    /\ timers[p][s] > 0
    /\ IF ~running[p]
       THEN /\ gameboy' = [gameboy EXCEPT ![p] = NULL]
            /\ audio' = [audio EXCEPT ![p][s] = NONE]
            /\ timers' = clearInterval(timers, p, s)
            /\ idLive' = [idLive EXCEPT ![p][s] = FALSE]
            /\ UNCHANGED pc
       ELSE IF audio[p][s] = NONE
       THEN UNCHANGED <<gameboy, audio, timers, idLive, pc>>
       ELSE /\ pc' = [pc EXCEPT ![p] = IF audio[p][s] < AudioLimit THEN s ELSE NONE]
            /\ UNCHANGED <<gameboy, audio, timers, idLive>>
    /\ UNCHANGED <<snapVars, variant, net, rom_file, running, connection, phase, lockstep,
                   received_data, handlers, out>>

\* The flag tested at the start of a frame only, not before every step.
LockstepTestPerFrame(p, s) ==
    lockstep[p][s] /\ gameboy[p] # NULL /\ frame_ready(gameboy[p])

\* The test of the lockstep flag at the head of an iteration.
LockstepTest(p, s) == lockstep[p][s]

MainLoopIter(p, e) ==
    LET s == pc[p]
        g == gameboy[p]
        reply == variant = "deferred" /\ received_data[p][s] # NONE
        g1 == IF reply THEN serial_receive(g, received_data[p][s]) ELSE g
        g2 == emulate_cycle(g1, e)
        o1 == IF reply THEN Emit(out, p, <<"slave", serial_data(g)>>) ELSE out
        o2 == IF e[1] = "send" THEN Emit(o1, p, <<"master", e[2]>>) ELSE o1
    IN
    /\ pc[p] # NONE
    /\ IF LockstepTest(p, s)
       THEN /\ e = <<"none", 0>>
            /\ timers' = clearInterval(timers, p, s)
            /\ idLive' = [idLive EXCEPT ![p][s] = FALSE]
            /\ pc' = [pc EXCEPT ![p] = NONE]
            /\ UNCHANGED <<gameboy, lockstep, received_data, audio, out>>
       ELSE IF g = NULL
       THEN /\ e = <<"none", 0>>
            /\ pc' = [pc EXCEPT ![p] = NONE]
            /\ UNCHANGED <<gameboy, lockstep, received_data, audio, timers, idLive, out>>
       ELSE /\ e[1] = "send" => serial_is_master(g1)
            /\ e[1] = "apu" => audio[p][g.cb] # NONE
            /\ Len(o2[p]) <= MaxQueue
            /\ gameboy' = [gameboy EXCEPT ![p] = g2]
            /\ out' = o2
            /\ received_data' = IF reply THEN [received_data EXCEPT ![p][s] = NONE]
                                ELSE received_data
            /\ lockstep' = IF e[1] = "send" THEN [lockstep EXCEPT ![p][g.cb] = TRUE]
                           ELSE lockstep
            /\ audio' = IF e[1] = "apu" THEN [audio EXCEPT ![p][g.cb] = append(@)]
                        ELSE audio
            /\ pc' = [pc EXCEPT ![p] = IF frame_ready(g2) THEN NONE ELSE s]
            /\ UNCHANGED <<timers, idLive>>
    /\ UNCHANGED <<snapVars, variant, net, rom_file, running, connection, phase, handlers>>

(***************************************************************************)
(* Serial variant: socket handlers.  Every closure that has run keeps its  *)
(* 'master' and 'slave' handlers registered; a message runs them in the    *)
(* order of registration, and a handler that throws ends the dispatch.     *)
(* All of them read the one gameboy variable, so they take the same        *)
(* branch.                                                                 *)
(***************************************************************************)
\* What the registered 'master' handlers of the immediate form emit for one
\* message: each emits serial_data() and then calls serial_receive(data), so
\* every handler after the first reads the byte the one before it stored.
Replies(p, g, data) ==
    [i \in 1..Len(handlers[p]) |->
        <<"slave", IF i = 1 THEN serial_data(g)
                   ELSE serial_data(serial_receive(g, data))>>]

OnMaster(p, data, o) ==
    LET hs == Range(handlers[p])
        g == gameboy[p]
    IN
    /\ Idle(p)
    /\ hs # {}
    /\ IF g = NULL \/ serial_is_master(g)
       THEN /\ out' = o
            /\ UNCHANGED <<gameboy, received_data>>
       ELSE IF variant = "deferred"
       THEN /\ received_data' = [received_data EXCEPT
                                   ![p] = [s \in Sessions |->
                                             IF s \in hs THEN data ELSE @[s]]]
            /\ out' = o
            /\ UNCHANGED gameboy
       ELSE /\ Len(o[p]) + Len(handlers[p]) <= MaxQueue
            /\ out' = [o EXCEPT ![p] = @ \o Replies(p, g, data)]
            /\ gameboy' = [gameboy EXCEPT ![p] = serial_receive(g, data)]
            /\ UNCHANGED received_data
    /\ UNCHANGED <<snapVars, variant, net, rom_file, running, connection, phase, lockstep,
                   audio, timers, idLive, handlers, pc>>

OnSlave(p, data, o) ==
    LET hs == Range(handlers[p])
        g == gameboy[p]
    IN
    /\ Idle(p)
    /\ hs # {}
    /\ out' = o
    /\ IF g = NULL \/ ~serial_is_master(g)
       THEN UNCHANGED <<gameboy, lockstep, timers, idLive>>
       ELSE /\ \A s \in hs : timers[p][s] < MaxTimers
            /\ lockstep' = [lockstep EXCEPT
                              ![p] = [s \in Sessions |-> IF s \in hs THEN FALSE ELSE @[s]]]
            /\ timers' = [timers EXCEPT
                            ![p] = [s \in Sessions |-> IF s \in hs THEN @[s] + 1 ELSE @[s]]]
            /\ idLive' = [idLive EXCEPT
                            ![p] = [s \in Sessions |-> IF s \in hs THEN TRUE ELSE @[s]]]
            /\ gameboy' = [gameboy EXCEPT ![p] = serial_receive(g, data)]
    /\ UNCHANGED <<snapVars, variant, net, rom_file, running, connection, phase,
                   received_data, audio, handlers, pc>>

OnLeave(p) ==
    /\ Idle(p)
    /\ connection[p] # "Disconnected"
    /\ connection' = [connection EXCEPT ![p] = "Disconnected"]
    /\ UNCHANGED <<snapVars, variant, net, rom_file, gameboy, running, phase, lockstep,
                   received_data, audio, timers, idLive, handlers, pc, out>>

OnJoin(p) ==
    /\ Idle(p)
    /\ connection[p] # "Connected"
    /\ connection' = [connection EXCEPT ![p] = "Connected"]
    /\ UNCHANGED <<snapVars, variant, net, rom_file, gameboy, running, phase, lockstep,
                   received_data, audio, timers, idLive, handlers, pc, out>>

\* The transport takes the oldest emitted message of a page.
NetTake(p) ==
    /\ out[p] # <<>>
    /\ out' = [out EXCEPT ![p] = Tail(@)]
    /\ UNCHANGED <<snapVars, variant, net, rom_file, gameboy, running, connection, phase,
                   lockstep, received_data, audio, timers, idLive, handlers, pc>>

(***************************************************************************)
(* One page of the serial variant against an arbitrary transport.          *)
(***************************************************************************)
InitSerial ==
    /\ variant \in {"deferred", "immediate"}
    /\ net = "env"
    /\ rom_file = [p \in AllPeers |-> NOTEXT]
    /\ gameboy = [p \in AllPeers |-> NULL]
    /\ running = [p \in AllPeers |-> FALSE]
    /\ connection = [p \in AllPeers |-> "-"]
    /\ phase = [p \in AllPeers |-> [s \in Sessions |-> "free"]]
    /\ lockstep = [p \in AllPeers |-> [s \in Sessions |-> FALSE]]
    /\ received_data = [p \in AllPeers |-> [s \in Sessions |-> NONE]]
    /\ audio = [p \in AllPeers |-> [s \in Sessions |-> NONE]]
    /\ timers = [p \in AllPeers |-> [s \in Sessions |-> 0]]
    /\ idLive = [p \in AllPeers |-> [s \in Sessions |-> FALSE]]
    /\ handlers = [p \in AllPeers |-> <<>>]
    /\ pc = [p \in AllPeers |-> NONE]
    /\ out = [p \in AllPeers |-> <<>>]
    /\ socket = [p \in AllPeers |-> NOTEXT]
    /\ rom = [p \in AllPeers |-> NOTEXT]
    /\ other = [p \in AllPeers |-> NONE]
    /\ mode = [p \in AllPeers |-> NOTEXT]
    /\ initialized = [p \in AllPeers |-> FALSE]
    /\ room = [p \in AllPeers |-> FALSE]
    /\ last = [p \in AllPeers |-> "none"]
    /\ keyed = [p \in AllPeers |-> FALSE]

\* The page's events, each for the one page of this specification.
SerialRomInput == \E p \in Peers : RomInput(p)
SerialOnClick == \E p \in Peers : OnClick(p)
SerialRun == \E p \in Peers, s \in Sessions : Run(p, s)
SerialOffClick == \E p \in Peers : OffClick(p)
SerialPlayback == \E p \in Peers, s \in Sessions : Playback(p, s)
SerialMainLoopTick == \E p \in Peers, s \in Sessions : MainLoopTick(p, s)
SerialMainLoopIter == \E p \in Peers, e \in EngineEvents : MainLoopIter(p, e)
SerialOnMaster == \E p \in Peers, d \in Bytes : OnMaster(p, d, out)
SerialOnSlave == \E p \in Peers, d \in Bytes : OnSlave(p, d, out)
SerialOnLeave == \E p \in Peers : OnLeave(p)
SerialOnJoin == \E p \in Peers : OnJoin(p)
SerialNetTake == \E p \in Peers : NetTake(p)

NextSerial ==
    \/ SerialRomInput
    \/ SerialOnClick
    \/ SerialRun
    \/ SerialOffClick
    \/ SerialPlayback
    \/ SerialMainLoopTick
    \/ SerialMainLoopIter
    \/ SerialOnMaster
    \/ SerialOnSlave
    \/ SerialOnLeave
    \/ SerialOnJoin
    \/ SerialNetTake

SpecSerial == InitSerial /\ [][NextSerial]_vars

(***************************************************************************)
(* Two linked pages of the serial variant (part_001), both powered on.     *)
(* The transport hands each emitted message, in order, to the handlers of  *)
(* the other page.  The interval timers keep firing (weak fairness of the  *)
(* driver) and the event loop dispatches a delivered message between two   *)
(* callbacks of the receiving page (strong fairness of the relay, which is *)
(* disabled while that page is inside main_loop).                          *)
(***************************************************************************)
\* document.onkeydown and document.onkeyup of the serial variant.
SerialKeyEvent(p, down) ==
    /\ Idle(p)
    /\ gameboy[p] # NULL
    /\ gameboy' = [gameboy EXCEPT ![p] = IF down THEN joypad_down(@) ELSE joypad_up(@)]
    /\ UNCHANGED <<snapVars, variant, net, rom_file, running, connection, phase, lockstep,
                   received_data, audio, timers, idLive, handlers, pc, out>>

Relay(p) ==
    /\ out[p] # <<>>
    /\ LET m == Head(out[p])
           o == [out EXCEPT ![p] = Tail(@)]
       IN  \/ m[1] = "master" /\ OnMaster(Other(p), m[2], o)
           \/ m[1] = "slave" /\ OnSlave(Other(p), m[2], o)

InitSerialPair ==
    /\ variant = "deferred"
    /\ net = "pair"
    /\ rom_file = [p \in AllPeers |-> "rom"]
    /\ gameboy = [p \in AllPeers |-> GameBoyHandle_new(1)]
    /\ running = [p \in AllPeers |-> TRUE]
    /\ connection = [p \in AllPeers |-> "Connected"]
    /\ phase = [p \in AllPeers |-> [s \in Sessions |-> IF s = 1 THEN "run" ELSE "free"]]
    /\ lockstep = [p \in AllPeers |-> [s \in Sessions |-> FALSE]]
    /\ received_data = [p \in AllPeers |-> [s \in Sessions |-> NONE]]
    /\ audio = [p \in AllPeers |->
                  [s \in Sessions |-> IF s = 1 THEN AudioHandle_new ELSE NONE]]
    /\ timers = [p \in AllPeers |-> [s \in Sessions |-> IF s = 1 THEN 1 ELSE 0]]
    /\ idLive = [p \in AllPeers |-> [s \in Sessions |-> s = 1]]
    /\ handlers = [p \in AllPeers |-> <<1>>]
    /\ pc = [p \in AllPeers |-> NONE]
    /\ out = [p \in AllPeers |-> <<>>]
    /\ socket = [p \in AllPeers |-> NOTEXT]
    /\ rom = [p \in AllPeers |-> NOTEXT]
    /\ other = [p \in AllPeers |-> NONE]
    /\ mode = [p \in AllPeers |-> NOTEXT]
    /\ initialized = [p \in AllPeers |-> FALSE]
    /\ room = [p \in AllPeers |-> FALSE]
    /\ last = [p \in AllPeers |-> "none"]
    /\ keyed = [p \in AllPeers |-> FALSE]

PairPlayback == \E p \in Peers : Playback(p, 1)
PairMainLoopTick == \E p \in Peers : MainLoopTick(p, 1)
PairMainLoopIter == \E p \in Peers, e \in EngineEvents : MainLoopIter(p, e)
PairKeyEvent == \E p \in AllPeers, down \in BOOLEAN : SerialKeyEvent(p, down)
PairRelay == \E p \in Peers : Relay(p)

NextSerialPair ==
    \/ PairKeyEvent
    \/ PairPlayback
    \/ PairMainLoopTick
    \/ PairMainLoopIter
    \/ PairRelay

FairSerialPair ==
    \A p \in AllPeers :
        /\ WF_vars(Playback(p, 1))
        /\ WF_vars(MainLoopTick(p, 1))
        /\ WF_vars(\E e \in EngineEvents : MainLoopIter(p, e))
        /\ SF_vars(Relay(p))

SpecSerialPair == InitSerialPair /\ [][NextSerialPair]_vars /\ FairSerialPair

(***************************************************************************)
(* One running page of the serial variant whose timers the event loop      *)
(* serves: a due main_loop tick runs, a started while loop goes on.  The   *)
(* transport may deliver a reply or not.                                   *)
(***************************************************************************)
InitSerialRunning ==
    /\ variant = "deferred"
    /\ net = "env"
    /\ rom_file = [p \in AllPeers |-> "rom"]
    /\ gameboy = [p \in AllPeers |-> GameBoyHandle_new(1)]
    /\ running = [p \in AllPeers |-> TRUE]
    /\ connection = [p \in AllPeers |-> "Connected"]
    /\ phase = [p \in AllPeers |-> [s \in Sessions |-> IF s = 1 THEN "run" ELSE "free"]]
    /\ lockstep = [p \in AllPeers |-> [s \in Sessions |-> FALSE]]
    /\ received_data = [p \in AllPeers |-> [s \in Sessions |-> NONE]]
    /\ audio = [p \in AllPeers |->
                  [s \in Sessions |-> IF s = 1 THEN AudioHandle_new ELSE NONE]]
    /\ timers = [p \in AllPeers |-> [s \in Sessions |-> IF s = 1 THEN 1 ELSE 0]]
    /\ idLive = [p \in AllPeers |-> [s \in Sessions |-> s = 1]]
    /\ handlers = [p \in AllPeers |-> <<1>>]
    /\ pc = [p \in AllPeers |-> NONE]
    /\ out = [p \in AllPeers |-> <<>>]
    /\ socket = [p \in AllPeers |-> NOTEXT]
    /\ rom = [p \in AllPeers |-> NOTEXT]
    /\ other = [p \in AllPeers |-> NONE]
    /\ mode = [p \in AllPeers |-> NOTEXT]
    /\ initialized = [p \in AllPeers |-> FALSE]
    /\ room = [p \in AllPeers |-> FALSE]
    /\ last = [p \in AllPeers |-> "none"]
    /\ keyed = [p \in AllPeers |-> FALSE]

NextSerialRunning ==
    \/ SerialOffClick
    \/ SerialPlayback
    \/ SerialMainLoopTick
    \/ SerialMainLoopIter
    \/ SerialOnMaster
    \/ SerialOnSlave
    \/ SerialNetTake

FairSerialRunning ==
    \A p \in {1} : \A s \in Sessions :
        /\ WF_vars(MainLoopTick(p, s))
        /\ WF_vars(\E e \in EngineEvents : MainLoopIter(p, e))

SpecSerialRunning == InitSerialRunning /\ [][NextSerialRunning]_vars /\ FairSerialRunning

(***************************************************************************)
(* The snapshot variant (index.js 1-231): one engine handle holds the      *)
(* local game boy and, once connected, a copy of the peer's.  A game boy's *)
(* serialised state is followed as a digest 0..MaxState that every cycle   *)
(* and every key changes; cyc is the position in the frame.                *)
(***************************************************************************)
States == 0..MaxState
Ids == 2..MaxId

SnapHandle_new == [gb1 |-> 0, gb2 |-> NONE, cyc |-> 0]

Cycle(st) == (st + 1) % (MaxState + 1)

ApplyKey(st, down) == (2 * st + (IF down THEN 1 ELSE 0)) % (MaxState + 1)

snap_emulate_cycle(g) ==
    [gb1 |-> Cycle(g.gb1),
     gb2 |-> IF g.gb2 = NONE THEN NONE ELSE Cycle(g.gb2),
     cyc |-> (g.cyc + 1) % FrameLen]

to_json(g) == g.gb1

to_json2(g) == g.gb2

connect(g, data) == [g EXCEPT !.gb2 = data]

disconnect(g) == [g EXCEPT !.gb2 = NONE]

\* sync(slave, master): the local game boy becomes the master's copy of it,
\* the second one the master's own; a text that holds no state is refused.
sync(g, slave, master) ==
    IF slave = NONE \/ master = NONE THEN g
    ELSE [g EXCEPT !.gb1 = slave, !.gb2 = master]

key_down(g) == [g EXCEPT !.gb1 = ApplyKey(@, TRUE)]

key_up(g) == [g EXCEPT !.gb1 = ApplyKey(@, FALSE)]

key_down2(g) == [g EXCEPT !.gb2 = IF @ = NONE THEN NONE ELSE ApplyKey(@, TRUE)]

key_up2(g) == [g EXCEPT !.gb2 = IF @ = NONE THEN NONE ELSE ApplyKey(@, FALSE)]

\* The test of the audio sink, one buffer too generous.
SinkHasRoomOffByOne(len) == len <= AudioLimit

\* main_loop's test of the audio sink.
SinkHasRoom(len) == len < AudioLimit

\* rom_input.oninput and the end of the file's load.
SnapRomInput(p) ==
    /\ Idle(p)
    /\ rom[p] = NOTEXT
    /\ rom' = [rom EXCEPT ![p] = "rom"]
    /\ UNCHANGED <<net, gameboy, audio, timers, pc, out, serialVars,
                   socket, other, mode, initialized, room, last, keyed>>

\* server.onclick: the first click makes the socket and its handlers; a click
\* on a connected socket disconnects it, any other click asks to connect.
ServerClick(p) ==
    /\ Idle(p)
    /\ socket[p] # "opening"
    /\ socket' = [socket EXCEPT ![p] = IF @ = "connected" THEN "closed" ELSE "opening"]
    /\ room' = [room EXCEPT ![p] = FALSE]
    /\ UNCHANGED <<net, gameboy, audio, timers, pc, out, serialVars,
                   rom, other, mode, initialized, last, keyed>>

\* The transport opens the connection ('connect' changes the page's labels only).
SocketConnect(p) ==
    /\ Idle(p)
    /\ socket[p] = "opening"
    /\ socket' = [socket EXCEPT ![p] = "connected"]
    /\ UNCHANGED <<net, gameboy, audio, timers, pc, out, serialVars,
                   rom, other, mode, initialized, room, last, keyed>>

\* The transport loses the connection ('disconnect' changes the labels only)
\* and goes on trying to open it again.
SocketDrop(p) ==
    /\ Idle(p)
    /\ socket[p] = "connected"
    /\ socket' = [socket EXCEPT ![p] = "opening"]
    /\ room' = [room EXCEPT ![p] = FALSE]
    /\ UNCHANGED <<net, gameboy, audio, timers, pc, out, serialVars,
                   rom, other, mode, initialized, last, keyed>>

\* connect.onsubmit, installed with the socket.
ConnectSubmit(p, target) ==
    /\ Idle(p)
    /\ socket[p] = "connected" /\ other[p] = NONE
    /\ Len(out[p]) < MaxPending
    /\ out' = Emit(out, p, <<"join", target>>)
    /\ UNCHANGED <<net, gameboy, audio, timers, pc, serialVars, snapVars>>

\* disconnect.onclick, installed with the socket.
DisconnectClick(p) ==
    /\ Idle(p)
    /\ socket[p] = "connected"
    /\ Len(out[p]) < MaxPending
    /\ out' = Emit(out, p, <<"leave", 0>>)
    /\ UNCHANGED <<net, gameboy, audio, timers, pc, serialVars, snapVars>>

\* power.onclick.
PowerClick(p) ==
    /\ Idle(p)
    /\ IF gameboy[p] # NULL
       THEN /\ gameboy' = [gameboy EXCEPT ![p] = NULL]
            /\ UNCHANGED <<audio, timers>>
       ELSE /\ rom[p] # NOTEXT
            /\ timers[p].main < MaxTimers /\ timers[p].sync < MaxTimers
            /\ gameboy' = [gameboy EXCEPT ![p] = SnapHandle_new]
            /\ audio' = [audio EXCEPT ![p] = AudioHandle_new]
            /\ timers' = [timers EXCEPT ![p] = [main |-> @.main + 1, sync |-> @.sync + 1]]
    /\ keyed' = [keyed EXCEPT ![p] = FALSE]
    /\ UNCHANGED <<net, pc, out, serialVars, socket, rom, other, mode, initialized, room, last>>

\* The audio device plays a queued buffer.
SnapPlayback(p) ==
    /\ audio[p] # NONE /\ audio[p] > 0
    /\ audio' = [audio EXCEPT ![p] = played(@)]
    /\ UNCHANGED <<net, gameboy, timers, pc, out, serialVars, snapVars>>

\* A tick of a main_loop timer, up to the head of its while loop.
SnapMainLoopTick(p) ==
    /\ Idle(p)
    /\ timers[p].main > 0
    /\ IF gameboy[p] = NULL
       THEN /\ timers' = [timers EXCEPT ![p].main = @ - 1]
            /\ UNCHANGED pc
       ELSE /\ SinkHasRoom(audio[p])
            /\ pc' = [pc EXCEPT ![p] = 1]
            /\ UNCHANGED timers
    /\ UNCHANGED <<net, gameboy, audio, out, serialVars, snapVars>>

\* One pass of while (!gameboy.emulate_cycle()) {}; the engine may call the
\* audio callback in the cycle.
SnapMainLoopIter(p, apu) ==
    /\ pc[p] # NONE
    /\ gameboy' = [gameboy EXCEPT ![p] = snap_emulate_cycle(@)]
    /\ audio' = [audio EXCEPT ![p] = IF apu THEN append(@) ELSE @]
    /\ pc' = [pc EXCEPT ![p] = IF frame_ready(gameboy'[p]) THEN NONE ELSE @]
    /\ keyed' = [keyed EXCEPT ![p] = FALSE]
    /\ UNCHANGED <<net, timers, out, serialVars, socket, rom, other, mode, initialized, room, last>>

\* A tick of a sync_loop timer.
SyncLoopTick(p) ==
    /\ Idle(p)
    /\ timers[p].sync > 0
    /\ IF gameboy[p] = NULL
       THEN /\ timers' = [timers EXCEPT ![p].sync = @ - 1]
            /\ UNCHANGED out
       ELSE /\ socket[p] = "connected" /\ mode[p] = "master"
            /\ Len(out[p]) < MaxPending
            /\ out' = Emit(out, p, <<"sync", [master |-> to_json(gameboy[p]),
                                              slave |-> to_json2(gameboy[p])]>>)
            /\ UNCHANGED timers
    /\ UNCHANGED <<net, gameboy, audio, pc, serialVars, snapVars>>

\* The test before the key event is forwarded, without its peer part.
ForwardWantedUnlinked(p) == socket[p] = "connected"

\* if (socket.connected && other !== null) of the key handlers.
ForwardWanted(p) == socket[p] = "connected" /\ other[p] # NONE

\* document.onkeydown and document.onkeyup.
KeyEvent(p, down) ==
    /\ Idle(p)
    /\ gameboy[p] # NULL
    /\ gameboy' = [gameboy EXCEPT ![p] = IF down THEN key_down(@) ELSE key_up(@)]
    /\ IF ForwardWanted(p)
       THEN /\ Len(out[p]) < MaxPending
            /\ out' = Emit(out, p, <<IF down THEN "keydown" ELSE "keyup", 0>>)
       ELSE UNCHANGED out
    /\ keyed' = [keyed EXCEPT ![p] = TRUE]
    /\ UNCHANGED <<net, audio, timers, pc, serialVars, socket, rom, other, mode, initialized, room, last>>

\* The engine a 'leave' leaves behind, had the handler dropped the handle.
LeaveEngineDropped(g) == NULL

\* The engine a 'leave' leaves behind: gameboy.disconnect() on a live handle.
LeaveEngine(g) == IF g # NULL THEN disconnect(g) ELSE g

\* The handshake flag after a 'leave', had the handler kept it.
LeaveInitializedKept(p) == initialized[p]

\* The handshake flag after a 'leave'.
LeaveInitialized(p) == FALSE

\* The test before gameboy.connect, without its handshake part.
ConnectWantedAlways(p) == gameboy[p] # NULL

\* The test before gameboy.connect in socket.on('init').
ConnectWanted(p) == gameboy[p] # NULL /\ ~initialized[p]

\* The role after a 'leave', had the handler kept it.
LeaveModeKept(p) == mode[p]

\* The role after a 'leave': mode = null.
LeaveMode(p) == NOTEXT

\* socket.on('leave'), o being what the page has emitted and the transport
\* not yet taken.
SnapLeave(p, o) ==
    /\ Idle(p)
    /\ other' = [other EXCEPT ![p] = NONE]
    /\ mode' = [mode EXCEPT ![p] = LeaveMode(p)]
    /\ initialized' = [initialized EXCEPT ![p] = LeaveInitialized(p)]
    /\ gameboy' = [gameboy EXCEPT ![p] = LeaveEngine(@)]
    /\ out' = o
    /\ last' = [last EXCEPT ![p] = "leave"]
    /\ UNCHANGED <<net, audio, timers, pc, serialVars, socket, rom, keyed>>

\* A link handler that never returns early.
LinkRefusedNever(p) == FALSE

\* if (other !== null) return; of the link handlers.
LinkRefused(p) == other[p] # NONE

\* socket.on('slave') and socket.on('master'): the link request.
SnapLink(p, m, id, o) ==
    /\ Idle(p)
    /\ IF LinkRefused(p)
       THEN /\ out' = o
            /\ UNCHANGED <<other, mode>>
       ELSE /\ other' = [other EXCEPT ![p] = id]
            /\ mode' = [mode EXCEPT ![p] = m]
            /\ IF gameboy[p] # NULL
               THEN /\ Len(o[p]) < MaxPending
                    /\ out' = Emit(o, p, <<"init", to_json(gameboy[p])>>)
               ELSE out' = o
    /\ last' = [last EXCEPT ![p] = IF other[p] # NONE THEN "link ignored"
                                   ELSE IF gameboy[p] = NULL THEN "link, no engine"
                                   ELSE "link"]
    /\ UNCHANGED <<net, gameboy, audio, timers, pc, serialVars, socket, rom, initialized, keyed>>

\* socket.on('init').
SnapInit(p, data, o) ==
    /\ Idle(p)
    /\ gameboy' = [gameboy EXCEPT ![p] =
           IF ConnectWanted(p) THEN connect(@, data) ELSE @]
    /\ initialized' = [initialized EXCEPT ![p] = TRUE]
    /\ out' = o
    /\ last' = [last EXCEPT ![p] = IF initialized[p] THEN "init again" ELSE "init"]
    /\ UNCHANGED <<net, audio, timers, pc, serialVars, socket, rom, other, mode, keyed>>

\* The early return of socket.on('sync'), without its test of the role.
SyncIgnoredBySlaveOnly(p) == gameboy[p] = NULL \/ ~initialized[p]

\* The early return of socket.on('sync').
SyncIgnored(p) == gameboy[p] = NULL \/ mode[p] # "slave" \/ ~initialized[p]

\* socket.on('sync').
SnapSync(p, data, o) ==
    /\ Idle(p)
    /\ gameboy' = [gameboy EXCEPT ![p] =
           IF SyncIgnored(p) THEN @ ELSE sync(@, data.slave, data.master)]
    /\ out' = o
    /\ last' = [last EXCEPT ![p] = IF SyncIgnored(p) THEN "sync ignored" ELSE "sync"]
    /\ UNCHANGED <<net, audio, timers, pc, serialVars, socket, rom, other, mode, initialized, keyed>>

\* socket.on('keydown') and socket.on('keyup').
SnapKey(p, down, o) ==
    /\ Idle(p)
    /\ gameboy' = [gameboy EXCEPT ![p] =
           IF @ = NULL THEN @ ELSE IF down THEN key_down2(@) ELSE key_up2(@)]
    /\ out' = o
    /\ last' = [last EXCEPT ![p] = "key"]
    /\ UNCHANGED <<net, audio, timers, pc, serialVars, socket, rom, other, mode, initialized, keyed>>

(***************************************************************************)
(* One page of the snapshot variant and its server: the server links the   *)
(* page (slave or master), relays the linked peer's messages in the order  *)
(* they were sent, and tells the page when the link ends.                  *)
(***************************************************************************)
InitSnap ==
    /\ variant = "snapshot"
    /\ net = "env"
    /\ rom_file = [p \in AllPeers |-> NOTEXT]
    /\ running = [p \in AllPeers |-> FALSE]
    /\ connection = [p \in AllPeers |-> "-"]
    /\ phase = [p \in AllPeers |-> [s \in Sessions |-> "free"]]
    /\ lockstep = [p \in AllPeers |-> [s \in Sessions |-> FALSE]]
    /\ received_data = [p \in AllPeers |-> [s \in Sessions |-> NONE]]
    /\ idLive = [p \in AllPeers |-> [s \in Sessions |-> FALSE]]
    /\ handlers = [p \in AllPeers |-> <<>>]
    /\ gameboy = [p \in AllPeers |-> NULL]
    /\ audio = [p \in AllPeers |-> NONE]
    /\ timers = [p \in AllPeers |-> [main |-> 0, sync |-> 0]]
    /\ pc = [p \in AllPeers |-> NONE]
    /\ out = [p \in AllPeers |-> <<>>]
    /\ socket = [p \in AllPeers |-> NOTEXT]
    /\ rom = [p \in AllPeers |-> NOTEXT]
    /\ other = [p \in AllPeers |-> NONE]
    /\ mode = [p \in AllPeers |-> NOTEXT]
    /\ initialized = [p \in AllPeers |-> FALSE]
    /\ room = [p \in AllPeers |-> FALSE]
    /\ last = [p \in AllPeers |-> "none"]
    /\ keyed = [p \in AllPeers |-> FALSE]

Linked(p) == socket[p] = "connected" /\ room[p]

EnvLink ==
    \E p \in Peers, m \in {"slave", "master"}, id \in Ids :
        /\ socket[p] = "connected" /\ ~room[p]
        /\ room' = [room EXCEPT ![p] = TRUE]
        /\ SnapLink(p, m, id, out)

EnvLeave ==
    \E p \in Peers :
        /\ socket[p] = "connected"
        /\ room' = [room EXCEPT ![p] = FALSE]
        /\ SnapLeave(p, out)

EnvInit ==
    \E p \in Peers, data \in States :
        Linked(p) /\ SnapInit(p, data, out) /\ UNCHANGED room

EnvSync ==
    \E p \in Peers, s \in States \cup {NONE}, m \in States :
        Linked(p) /\ SnapSync(p, [master |-> m, slave |-> s], out) /\ UNCHANGED room

EnvKey ==
    \E p \in Peers, down \in BOOLEAN :
        Linked(p) /\ SnapKey(p, down, out) /\ UNCHANGED room

PageRomInput == \E p \in Peers : SnapRomInput(p)
PageServerClick == \E p \in Peers : ServerClick(p)
PageSocketConnect == \E p \in Peers : SocketConnect(p)
PageSocketDrop == \E p \in Peers : SocketDrop(p)
PageConnectSubmit == \E p \in Peers, target \in Ids : ConnectSubmit(p, target)
PageDisconnectClick == \E p \in Peers : DisconnectClick(p)
PagePowerClick == \E p \in Peers : PowerClick(p)
PagePlayback == \E p \in Peers : SnapPlayback(p)
PageMainLoopTick == \E p \in Peers : SnapMainLoopTick(p)
PageMainLoopIter == \E p \in Peers, apu \in BOOLEAN : SnapMainLoopIter(p, apu)
PageSyncLoopTick == \E p \in Peers : SyncLoopTick(p)
PageKeyEvent == \E p \in Peers, down \in BOOLEAN : KeyEvent(p, down)
PageNetTake == \E p \in Peers : NetTake(p)

NextSnap ==
    \/ PageRomInput
    \/ PageServerClick
    \/ PageSocketConnect
    \/ PageSocketDrop
    \/ PageConnectSubmit
    \/ PageDisconnectClick
    \/ PagePowerClick
    \/ PagePlayback
    \/ PageMainLoopTick
    \/ PageMainLoopIter
    \/ PageSyncLoopTick
    \/ PageKeyEvent
    \/ PageNetTake
    \/ EnvLink
    \/ EnvLeave
    \/ EnvInit
    \/ EnvSync
    \/ EnvKey

SpecSnap == InitSnap /\ [][NextSnap]_vars


(***************************************************************************)
(* Two pages of the snapshot variant, powered on and connected to the      *)
(* server.  The server links them, one as master and one as slave, and     *)
(* relays what a page emits to the other page, in the order of emission    *)
(* and after the other page's link request.                                *)
(***************************************************************************)
Id(p) == p + 1

InitSnapPair ==
    /\ variant = "snapshot"
    /\ net = "pair"
    /\ rom_file = [p \in AllPeers |-> NOTEXT]
    /\ running = [p \in AllPeers |-> FALSE]
    /\ connection = [p \in AllPeers |-> "-"]
    /\ phase = [p \in AllPeers |-> [s \in Sessions |-> "free"]]
    /\ lockstep = [p \in AllPeers |-> [s \in Sessions |-> FALSE]]
    /\ received_data = [p \in AllPeers |-> [s \in Sessions |-> NONE]]
    /\ idLive = [p \in AllPeers |-> [s \in Sessions |-> FALSE]]
    /\ handlers = [p \in AllPeers |-> <<>>]
    /\ gameboy = [p \in AllPeers |-> SnapHandle_new]
    /\ audio = [p \in AllPeers |-> AudioHandle_new]
    /\ timers = [p \in AllPeers |-> [main |-> 1, sync |-> 1]]
    /\ pc = [p \in AllPeers |-> NONE]
    /\ out = [p \in AllPeers |-> <<>>]
    /\ socket = [p \in AllPeers |-> "connected"]
    /\ rom = [p \in AllPeers |-> "rom"]
    /\ other = [p \in AllPeers |-> NONE]
    /\ mode = [p \in AllPeers |-> NOTEXT]
    /\ initialized = [p \in AllPeers |-> FALSE]
    /\ room = [p \in AllPeers |-> FALSE]
    /\ last = [p \in AllPeers |-> "none"]
    /\ keyed = [p \in AllPeers |-> FALSE]

\* The mode the server gives page p: the one its peer has not got.
RoleFor(p) ==
    IF mode[Other(p)] = "master" THEN {"slave"}
    ELSE IF mode[Other(p)] = "slave" THEN {"master"}
    ELSE {"slave", "master"}

SnapPairLink ==
    \E p \in AllPeers, m \in {"slave", "master"} :
        /\ ~room[p]
        /\ m \in RoleFor(p)
        /\ room' = [room EXCEPT ![p] = TRUE]
        /\ SnapLink(p, m, Id(Other(p)), out)

SnapPairRelay ==
    \E p \in AllPeers :
        /\ out[p] # <<>>
        /\ room[Other(p)]
        /\ UNCHANGED room
        /\ LET m == Head(out[p])
               o == [out EXCEPT ![p] = Tail(@)]
           IN  \/ m[1] = "init" /\ SnapInit(Other(p), m[2], o)
               \/ m[1] = "sync" /\ SnapSync(Other(p), m[2], o)
               \/ m[1] = "keydown" /\ SnapKey(Other(p), TRUE, o)
               \/ m[1] = "keyup" /\ SnapKey(Other(p), FALSE, o)

SnapPairMainLoopTick == \E p \in AllPeers : SnapMainLoopTick(p)
SnapPairMainLoopIter == \E p \in AllPeers : SnapMainLoopIter(p, FALSE)
SnapPairSyncLoopTick == \E p \in AllPeers : SyncLoopTick(p)
SnapPairKeyEvent == \E p \in AllPeers, down \in BOOLEAN : KeyEvent(p, down)

NextSnapPair ==
    \/ SnapPairLink
    \/ SnapPairRelay
    \/ SnapPairMainLoopTick
    \/ SnapPairMainLoopIter
    \/ SnapPairSyncLoopTick
    \/ SnapPairKeyEvent

SpecSnapPair == InitSnapPair /\ [][NextSnapPair]_vars


(***************************************************************************)
(* Properties of the serial lockstep variant.                              *)
(***************************************************************************)
\* A step of the page in which main_loop called emulate_cycle.
Stepped(p) ==
    /\ pc[p] # NONE
    /\ gameboy[p] # NULL
    /\ gameboy'[p] # gameboy[p]

\* The closures of a page that have run and are not torn down.
LiveClosures(p) == {s \in Sessions : audio[p][s] # NONE}

Paused(p) ==
    /\ gameboy[p] # NULL
    /\ running[p]
    /\ lockstep[p][gameboy[p].cb]
    /\ timers[p][gameboy[p].cb] = 0

\* C6 (as claimed): when 'leave' is handled while the driver is paused, the
\* engine goes back to running standalone: the pause is lifted (the flag is
\* clear and a driver timer is active), so that stepping resumes without a
\* message from the departed peer.
C6_LeaveLiftsPause ==
    [][\A p \in AllPeers :
          (connection[p] = "Connected" /\ connection'[p] = "Disconnected" /\ Paused(p))
            => ~Paused(p)']_vars

\* C2 (as claimed): a page that has paused for the peer's reply eventually
\* has its pause lifted, whatever the interleaving.
C2_PausedPeerResumes ==
    \A p \in AllPeers : Paused(p) ~> ~Paused(p)

\* C7 (as claimed): while no peer is linked the driver of a live engine is
\* never paused by the synchronization logic.
C7_UnlinkedNeverPaused ==
    \A p \in AllPeers : connection[p] # "Connected" => ~Paused(p)

(***************************************************************************)
(* Properties of the snapshot variant.                                     *)
(***************************************************************************)
Unsynced(p) == other[p] = NONE /\ mode[p] = NOTEXT /\ ~initialized[p]

LinkAccepted(p) == other[p] = NONE /\ other'[p] # NONE /\ mode'[p] \in {"slave", "master"}

C5_LeaveKeepsEngine ==
    [][\A p \in AllPeers : (SnapLeave(p, out) /\ gameboy[p] # NULL) =>
          /\ gameboy'[p] # NULL
          /\ to_json(gameboy'[p]) = to_json(gameboy[p])
          /\ gameboy'[p].cyc = gameboy[p].cyc
          /\ timers' = timers /\ audio' = audio /\ pc' = pc]_vars

C5_Witness ==
    /\ last[1] = "leave" /\ gameboy[1] # NULL
    /\ pc[1] # NONE /\ ~frame_ready(gameboy[1])

SnapStepped(p) == pc[p] # NONE /\ gameboy'[p] # gameboy[p]

\* C8 (as claimed): the driver steps the engine only while the handle is
\* non-null and the audio sink holds fewer than AudioLimit buffers.
C8_StepsOnlyBelowLimit ==
    [][\A p \in AllPeers : SnapStepped(p) =>
          gameboy[p] # NULL /\ audio[p] < AudioLimit]_vars

\* C8 (amended): an invocation of the driver starts stepping only when it finds
\* the handle non-null and fewer than AudioLimit buffers in the sink, the
\* engine is stepped inside such an invocation only, and the invocation ends
\* with the first step that reports a frame boundary, not before.
C8_TestAtInvocationStart ==
    [][\A p \in AllPeers :
          /\ (pc[p] = NONE /\ pc'[p] # NONE) =>
                 gameboy[p] # NULL /\ audio[p] # NONE /\ audio[p] < AudioLimit
          /\ (gameboy[p] # NULL /\ gameboy'[p] # NULL
                 /\ gameboy'[p].cyc # gameboy[p].cyc) => pc[p] # NONE
          /\ SnapStepped(p) => (pc'[p] = NONE <=> frame_ready(gameboy'[p]))]_vars

C8_Witness ==
    pc[1] # NONE /\ gameboy[1] # NULL /\ audio[1] >= AudioLimit

\* C9: an 'init' handled while initialized is true leaves the engine without
\* a call of connect, and other, mode and initialized as they were.
C9_LateInitIgnored ==
    [][\A p \in AllPeers : \A data \in States :
          (initialized[p] /\ SnapInit(p, data, out)) =>
              /\ gameboy' = gameboy
              /\ other' = other /\ mode' = mode /\ initialized' = initialized]_vars

C9_Witness ==
    /\ last[1] = "init again" /\ initialized[1]
    /\ gameboy[1] # NULL /\ gameboy[1].gb2 # NONE

EmitsInit(p) ==
    /\ Len(out'[p]) = Len(out[p]) + 1
    /\ out'[p][Len(out'[p])][1] = "init"

\* C10 (as claimed): the page emits 'init' in the step that accepts a link
\* request and in no other step, hence exactly once in a session.
C10_InitOncePerSession ==
    [][\A p \in AllPeers : LinkAccepted(p) <=> EmitsInit(p)]_vars

\* A page's engine holds what the peer's engine holds, sides exchanged.
Agree ==
    /\ to_json(gameboy[1]) = to_json2(gameboy[2])
    /\ to_json(gameboy[2]) = to_json2(gameboy[1])

SyncApplied(p) ==
    /\ out[Other(p)] # <<>>
    /\ Head(out[Other(p)])[1] = "sync"
    /\ Head(out[Other(p)])[2].slave # NONE
    /\ out'[Other(p)] = Tail(out[Other(p)])
    /\ last'[p] = "sync"

\* C3 (as claimed): when the slave has applied a 'sync' message, the two
\* pages hold the same state of both game boys.
C3_SyncRoundAgrees ==
    [][\A p \in AllPeers : SyncApplied(p) => Agree']_vars

\* C11 (as claimed): whenever initialized is true, a peer is linked and the
\* live engine holds the remote state it received through connect.
C11_InitializedMeansConnected ==
    \A p \in AllPeers : initialized[p] =>
        /\ other[p] # NONE
        /\ gameboy[p] # NULL
        /\ to_json2(gameboy[p]) # NONE

BothInitialized == \A p \in AllPeers : initialized[p]

NothingInFlight == \A p \in AllPeers : out[p] = <<>>

\* C12 (as claimed): at the step that completes the handshake on the second
\* of the two linked pages, with no message left in flight, both pages hold
\* the same state of both game boys.
C12_HandshakeAgrees ==
    [][(~BothInitialized /\ BothInitialized' /\ NothingInFlight') => Agree']_vars

\* C13 (as claimed): the power control turning the engine off leaves
\* other = null, mode = null and initialized = false.
C13_PowerOffUnsyncs ==
    [][\A p \in AllPeers :
          (gameboy[p] # NULL /\ PowerClick(p)) => Unsynced(p)']_vars

\* C14 (as claimed): when the handler of the disconnect control returns,
\* other = null, mode = null and initialized = false.
C14_DisconnectUnsyncsAtOnce ==
    [][\A p \in AllPeers : DisconnectClick(p) => Unsynced(p)']_vars

\* C15 (as claimed): the socket's 'disconnect' event after a drop by the
\* transport leaves other = null, mode = null and initialized = false.
C15_DropUnsyncs ==
    [][\A p \in AllPeers : SocketDrop(p) => Unsynced(p)']_vars

MessageHandled(p) ==
    \/ \E data \in States : SnapInit(p, data, out)
    \/ \E s \in States \cup {NONE}, m \in States :
           SnapSync(p, [master |-> m, slave |-> s], out)
    \/ \E down \in BOOLEAN : SnapKey(p, down, out)

\* C16 (as claimed): a handler of 'init', 'sync', 'keydown' or 'keyup' changes
\* neither the engine nor other, mode and initialized.
C16_HandlersOnlyStore ==
    [][\A p \in AllPeers : MessageHandled(p) =>
          /\ gameboy' = gameboy
          /\ other' = other /\ mode' = mode /\ initialized' = initialized]_vars

\* The transport delivers the 'master' message at the head of the peer's
\* queue to page p.
MasterDelivered(p) ==
    /\ out[Other(p)] # <<>>
    /\ Head(out[Other(p)])[1] = "master"
    /\ out'[Other(p)] = Tail(out[Other(p)])

RepliesEmitted(p) ==
    IF Len(out'[p]) > Len(out[p])
    THEN Cardinality({i \in (Len(out[p]) + 1)..Len(out'[p]) : out'[p][i][1] = "slave"})
    ELSE 0

\* C17 (as claimed): a delivered 'master' message overwrites no retained one
\* and is retained; a retained message leaves received_data only in a step of
\* the driver that emits one 'slave' reply; and no other step emits a reply.
C17_MasterRetainedAnsweredOnce ==
    [][\A p \in AllPeers : \A s \in Range(handlers[p]) :
          /\ MasterDelivered(p) =>
                /\ received_data[p][s] = NONE
                /\ received_data'[p][s] = Head(out[Other(p)])[2]
          /\ (received_data[p][s] # NONE /\ received_data'[p][s] = NONE) =>
                (pc[p] # NONE /\ RepliesEmitted(p) = 1)
          /\ RepliesEmitted(p) > 0 =>
                (received_data[p][s] # NONE /\ received_data'[p][s] = NONE)]_vars

EmitsJoin(p) ==
    /\ Len(out'[p]) = Len(out[p]) + 1
    /\ out'[p][Len(out'[p])][1] = "join"

\* C18: while other is non-null a link request changes neither other nor mode
\* and emits nothing, no step emits 'join', and other and mode change only by
\* the handling of 'leave', which sets both to null.
C18_OnePeerPerSession ==
    [][\A p \in AllPeers : other[p] # NONE =>
          /\ \A m \in {"slave", "master"}, id \in Ids :
                 SnapLink(p, m, id, out) =>
                     (other' = other /\ mode' = mode /\ out' = out)
          /\ ~EmitsJoin(p) /\ ~EmitsInit(p)
          /\ (other'[p] # other[p] \/ mode'[p] # mode[p]) =>
                 (SnapLeave(p, out) /\ other'[p] = NONE /\ mode'[p] = NOTEXT)]_vars

C18_Witness ==
    /\ last[1] = "link ignored" /\ other[1] # NONE /\ mode[1] # NOTEXT
    /\ socket[1] = "connected" /\ gameboy[1] # NULL

\* C19 (as claimed): while a page waits in lockstep for the reply to its
\* transfer, a local key event leaves the engine as it is.
C19_InputsFrozenWhilePaused ==
    [][\A p \in AllPeers : \A down \in BOOLEAN :
          (Paused(p) /\ SerialKeyEvent(p, down)) => gameboy'[p] = gameboy[p]]_vars

\* C20 (as claimed): a local key event that follows another one with no
\* engine cycle between them leaves the engine unchanged and emits nothing.
C20_SecondInputOfCycleRejected ==
    [][\A p \in AllPeers : \A down \in BOOLEAN :
          (keyed[p] /\ KeyEvent(p, down)) =>
              (gameboy'[p] = gameboy[p] /\ out' = out)]_vars

(***************************************************************************)
(* What the engine of a linked page becomes when a local key event, a      *)
(* forwarded key event of the peer and two cycles of main_loop reach it:   *)
(* every handler acts on the engine when it is called.                     *)
(***************************************************************************)
\* The local event, a cycle, the peer's event of the next cycle, a cycle.
ReceivedInCycleOrder(g) ==
    snap_emulate_cycle(key_down2(snap_emulate_cycle(key_down(g))))

\* The peer's event of the second cycle is delivered before the first cycle.
RemoteReceivedEarly(g) ==
    snap_emulate_cycle(snap_emulate_cycle(key_down(key_down2(g))))

\* C21 (as claimed): a connected engine reaches the same state after the two
\* cycles, whether the peer's event arrives in its cycle or before.
C21_ArrivalOrderIrrelevant ==
    \A p \in AllPeers :
        (gameboy[p] # NULL /\ to_json2(gameboy[p]) # NONE) =>
            ReceivedInCycleOrder(gameboy[p]) = RemoteReceivedEarly(gameboy[p])

\* A key event of page p is emitted and not yet delivered to the peer.
KeyInFlight(p) ==
    \E i \in DOMAIN out[p] : out[p][i][1] \in {"keydown", "keyup"}

\* C22 (as claimed): a 'sync' applied while a key event of the page is not
\* yet known to the master ends the session (other = null, mode = null,
\* initialized = false) and leaves the local game boy's state as it is.
C22_DesyncAbortsSession ==
    [][\A p \in AllPeers : (SyncApplied(p) /\ KeyInFlight(p)) =>
          /\ Unsynced(p)'
          /\ to_json(gameboy'[p]) = to_json(gameboy[p])]_vars

\* C23 (as claimed): after off.onclick the engine handle is eventually
\* released, so that on.onclick is accepted again.
C23_PowerOffReleasesEngine ==
    \A p \in AllPeers : (~running[p] /\ gameboy[p] # NULL) ~> (gameboy[p] = NULL)

EmitsSync(p) ==
    /\ Len(out'[p]) = Len(out[p]) + 1
    /\ out'[p][Len(out'[p])][1] = "sync"

SyncHandled(p) ==
    \E s \in States \cup {NONE}, m \in States :
        SnapSync(p, [master |-> m, slave |-> s], out)

\* C24: a page emits 'sync' only while its mode is 'master' and its socket is
\* connected, and the handler of a received 'sync' touches the engine only
\* on a page whose mode is 'slave', that is initialized and has an engine.
C24_SyncMasterToSlaveOnly ==
    [][\A p \in AllPeers :
          /\ EmitsSync(p) => (mode[p] = "master" /\ socket[p] = "connected")
          /\ ((last'[p] = "sync" \/ gameboy'[p] # gameboy[p]) /\ SyncHandled(p)) =>
                 (mode[p] = "slave" /\ initialized[p] /\ gameboy[p] # NULL)]_vars

\* An initialized slave has applied a received snapshot.
C24_Witness ==
    /\ last[1] = "sync" /\ mode[1] = "slave" /\ initialized[1]
    /\ gameboy[1] # NULL /\ gameboy[1].gb2 # NONE

\* C25 (as claimed): every 'slave' reply a page emits carries the serial
\* byte its engine held before the step, that is before the received master
\* byte was stored by serial_receive.
C25_ReplyCarriesOwnByte ==
    [][\A p \in AllPeers : \A i \in DOMAIN out'[p] :
          (i > Len(out[p]) /\ out'[p][i][1] = "slave") =>
              out'[p][i][2] = serial_data(gameboy[p])]_vars

EmitsKey(p, down) ==
    /\ Len(out'[p]) = Len(out[p]) + 1
    /\ out'[p][Len(out'[p])][1] = (IF down THEN "keydown" ELSE "keyup")

\* C26: a local key event on a page with an engine is applied to the page's
\* own game boy, and it is forwarded exactly when the socket is connected and
\* other is non-null; a page without an engine forwards no key event.
C26_LocalKeyAppliedAndForwarded ==
    [][\A p \in AllPeers : \A down \in BOOLEAN :
          /\ KeyEvent(p, down) =>
                /\ gameboy[p] # NULL
                /\ gameboy'[p] = (IF down THEN key_down(gameboy[p])
                                  ELSE key_up(gameboy[p]))
                /\ EmitsKey(p, down) <=> (socket[p] = "connected" /\ other[p] # NONE)
          /\ EmitsKey(p, down) => gameboy[p] # NULL]_vars

\* A linked page has applied a local key event and forwarded it.
C26_Witness ==
    /\ keyed[1] /\ gameboy[1] # NULL /\ gameboy[1].gb1 # 0
    /\ socket[1] = "connected" /\ other[1] # NONE
    /\ out[1] # <<>> /\ out[1][Len(out[1])][1] = "keydown"

\* C27: in every reachable state of the snapshot page the role is set exactly
\* when a peer is recorded: mode is null if and only if other is null.
C27_ModeIffOther ==
    \A p \in AllPeers : (mode[p] = NOTEXT) <=> (other[p] = NONE)

\* A page that accepted a link request holds a peer and a role.
C27_Witness ==
    last[1] = "link" /\ other[1] # NONE /\ mode[1] = "master"

RECURSIVE SumTo(_, _)
SumTo(f, n) == IF n = 0 THEN 0 ELSE f[n] + SumTo(f, n - 1)

\* The active interval timers of a page that run main_loop.
TickDrivers(p) ==
    IF variant = "snapshot" THEN timers[p].main ELSE SumTo(timers[p], MaxSessions)

\* The active interval timers of a page that run sync_loop.
SyncTimers(p) == IF variant = "snapshot" THEN timers[p].sync ELSE 0

\* C28 (as claimed): while a page has an engine, at most one interval timer
\* runs main_loop on it and at most one runs sync_loop.
C28_OneTickDriver ==
    \A p \in AllPeers :
        gameboy[p] # NULL => (TickDrivers(p) <= 1 /\ SyncTimers(p) <= 1)

\* A 'master' or 'slave' message arriving now is dispatched to a handler
\* registered by run().
HandlerDue(p) == Idle(p) /\ handlers[p] # <<>>

\* C29 (as claimed): in every state in which a 'master' or 'slave' message
\* is dispatched to a registered handler, gameboy is non-null.
C29_HandlersSeeEngine ==
    \A p \in AllPeers : HandlerDue(p) => gameboy[p] # NULL

====
